---- MODULE Spec2Model ----
(***************************************************************************)
(* Model of the train_shunting orchestration runtime:                      *)
(*   - the controller's event handler and safety sequencer                 *)
(*     (src/orchestrator/main.py),                                         *)
(*   - the detector's broadcast hub (src/backend/yolo_server.py),          *)
(*   - the stream client's run loop (src/orchestrator/events_client.py).   *)
(* In the controller time is counted in tenths of a second; a context     *)
(* that can take a step takes it before time passes, a send takes no time *)
(* and a sleep lasts exactly its duration.                                *)
(***************************************************************************)
EXTENDS Integers, Sequences, FiniteSets, TLC

(* ---------------------------------------------------------------------- *)
(* Bounds of the model                                                    *)
(* ---------------------------------------------------------------------- *)
StartTime == 100      \* wall-clock reading (time.time()) when the controller starts
MaxTime == 45         \* horizon after StartTime

(* execution contexts that invoke _handle_event: 1 is the stream client's thread,
   2 a second, concurrent invoker *)
Threads == {1, 2}
(* offsets at which an event may reach a context, at most one per instant *)
ArrivalInstants(t) == IF t = 1 THEN {0, 2, 3, 20, 25} ELSE {2}
WatchSets == {{"person"}, {"person", "bottle"}}
EventKinds ==
    {[type |-> "detection", label |-> "person"],
     [type |-> "detection", label |-> "bottle"],
     [type |-> "detection", label |-> ""],
     [type |-> "message", label |-> "person"]}

(* the event scenario of the specification: person@0, person@0.2, bottle@0.3, person@2.0 *)
Scenario ==
    <<[type |-> "detection", label |-> "person", at |-> StartTime],
      [type |-> "detection", label |-> "person", at |-> StartTime + 2],
      [type |-> "detection", label |-> "bottle", at |-> StartTime + 3],
      [type |-> "detection", label |-> "person", at |-> StartTime + 20]>>

(* ---------------------------------------------------------------------- *)
(* Configuration (src/backend/detection_config.py), in tenths of a second *)
(* ---------------------------------------------------------------------- *)
STOP_TO_REVERSE_DELAY == 10
REVERSE_DURATION == 15
FORWARD_RESUME_DELAY == 10
MAX_EVENT_LOG_SIZE == 2

VARIABLES
    WATCH_CLASSES,        \* configured watch set
    RESUME_WITH_FORWARD,  \* configured resume flag
    clock,                \* time.time()
    queue,                \* per context: events delivered and not yet taken up
    cur,                  \* per context: the event its _handle_event is working on
    pc,                   \* per context: position in _handle_event / _execute_safety_sequence
    now,                  \* per context: local `now` of _execute_safety_sequence
    wake,                 \* per context: end of the pending time.sleep
    serial_lock,          \* 0 when free, else the holder
    serial_cooldown,      \* OrchestratorRuntime._serial_cooldown
    event_log,            \* OrchestratorRuntime.event_log (newest first)
    last_detection,       \* OrchestratorRuntime.last_detection (NoDetection for None)
    wire,                 \* history: commands handed to the serial line, in order
    arrived,              \* history: per context, time of the latest delivery
    scn,                  \* history: how far the deliveries follow Scenario (-1: they do not)
    verdict               \* history: the latest debounce decision

seqVars == <<WATCH_CLASSES, RESUME_WITH_FORWARD, clock, queue, cur, pc, now, wake,
             serial_lock, serial_cooldown, event_log, last_detection, wire,
             arrived, scn, verdict>>

(* the broadcast hub's state *)
VARIABLES
    hub_lock,        \* DetectionState.lock: "free" or its holder
    event_queues,    \* DetectionState.event_queues
    qbuf,            \* per queue: the content of the asyncio.Queue
    qstate,          \* per queue: "unused", "registered" or "closed"
    loopq,           \* coroutines scheduled on the event loop, in order
    bpc,             \* position of the detection thread inside broadcast
    bqueues,         \* broadcast's local `queues`, the part not yet iterated
    bpayload,        \* broadcast's `payload`
    received,        \* history: per queue, the payloads its publisher yielded
    published,       \* history: the payloads broadcast, in order of their snapshot
    regAt            \* history: per queue, Len(published) when it registered

hubVars == <<hub_lock, event_queues, qbuf, qstate, loopq, bpc, bqueues, bpayload,
             received, published, regAt>>

(* the stream client's state *)
VARIABLES
    SSE_BACKOFF_SEC,  \* configured base backoff
    cpc,              \* position of the run loop
    backoff,          \* local `backoff` of _run
    stop_event,       \* DetectionEventsClient._stop_event
    sleep_left,       \* what remains of the pending time.sleep(backoff), in seconds
    caller,           \* position of the thread that calls start() and stop()
    join_waited,      \* how long the pending join has waited, in seconds
    frame,            \* what the assembled event_lines hold ("" when none)
    waits,            \* history: the reconnect waits of the current run loop, in order
    connected,        \* history: its connections opened with a success status
    sinceOk,          \* history: a connection succeeded since the latest wait began
    frames,           \* history: what became of the frames of the current connection
    starts,           \* history: number of start() calls
    stops             \* history: number of stop() calls

clientVars == <<SSE_BACKOFF_SEC, cpc, backoff, stop_event, sleep_left, caller,
                join_waited, frame, waits, connected, sinceOk, frames, starts, stops>>

(* the process supervisor's state: OrchestratorRuntime.start / stop *)
VARIABLES
    yolo_process,     \* OrchestratorRuntime.yolo_process: 0 for None, else the child
    pstate,           \* per child: "unborn", "running" or "exited"
    pready,           \* per child: its health endpoint answers with success
    returncode,       \* per child: its exit code once it has exited
    signals,          \* history: per child, the signals sent to it, in order
    rpc,              \* position of the thread inside start() or stop()
    health_elapsed,   \* time.time() - start_time in _wait_for_yolo_health, in seconds
    outcome,          \* how the latest _wait_for_yolo_health ended
    events_client,    \* OrchestratorRuntime.events_client is set and started
    zeroconf_handle,  \* OrchestratorRuntime.zeroconf_handle is set
    grace_left,       \* what remains of process.wait(timeout=wait), in seconds
    startups,         \* history: number of start() calls
    shutdowns,        \* history: number of stop() calls
    teardown,         \* history: what the latest stop() call has done, in order
    tally             \* history: event clients started/stopped, records registered/closed

supVars == <<yolo_process, pstate, pready, returncode, signals, rpc, health_elapsed,
             outcome, events_client, zeroconf_handle, grace_left, startups, shutdowns,
             teardown, tally>>

(* the service registry's state: one ZeroconfHandle, and calls of discover_first *)
VARIABLES
    info,             \* ZeroconfHandle._info is set
    zeroconf_open,    \* the handle's Zeroconf instance has not been closed
    announced,        \* the record is published
    ztally,           \* history: publications, withdrawals, withdrawals attempted for
                      \*   a record that is not published, unregister/close calls that raised
    zcalls,           \* history: number of calls on the handle
    sightings,        \* the services that appear during the latest discover_first call
    found,            \* what the latest discover_first call came to
    dcalls            \* history: number of discover_first calls

regVars == <<info, zeroconf_open, announced, ztally, zcalls, sightings, found, dcalls>>

(* one connection of the stream client, line by line *)
VARIABLES
    lines,            \* the lines response.iter_lines yields on the connection
    lpos,             \* how many of them the read loop has taken
    event_lines,      \* _run's local event_lines
    dispatched,       \* history: the values handed to the callback, in order
    lpc,              \* "reading", "ended" (the connection is over) or "crashed"
    lstop             \* _stop_event as the read loop sees it

lineVars == <<lines, lpos, event_lines, dispatched, lpc, lstop>>

(* a GET /status request served next to the stream client's thread *)
VARIABLES
    spc,              \* position of the request handler: "idle", "read" or "done"
    response,         \* what get_status has read so far
    requests          \* history: number of /status requests

statusVars == <<spc, response, requests>>

vars == <<seqVars, hubVars, clientVars, supVars, regVars, lineVars, statusVars>>

NoDetection == [label |-> "", ts |-> -1]
NoEvent == [type |-> "", label |-> "", at |-> -1]
NoVerdict == [at |-> -1, by |-> 0, ran |-> FALSE, prev |-> -1]

(* payload of an event as the handler sees it *)
Payload(e) == [label |-> e.label, ts |-> e.at]

(* a log that appends at the old end and never evicts *)
AppendRight(log, x) == Append(log, x)

(* deque(maxlen=N).appendleft *)
AppendLeft(log, x) ==
    IF MAX_EVENT_LOG_SIZE = 0 THEN <<>>
    ELSE SubSeq(<<x>> \o log, 1, IF Len(log) + 1 > MAX_EVENT_LOG_SIZE
                                 THEN MAX_EVENT_LOG_SIZE ELSE Len(log) + 1)

(* a sequencer that does not take the lock *)
LockIgnored == TRUE

(* `with self.serial_lock` can be entered *)
LockFree == serial_lock = 0

(* a debounce test that measures the stop-to-reverse delay instead of the cooldown *)
InCooldownShort(n) == n - serial_cooldown < STOP_TO_REVERSE_DELAY

(* a debounce test that still drops at exactly the cooldown *)
InCooldownInclusive(n) == n - serial_cooldown <= REVERSE_DURATION

(* the debounce test of _execute_safety_sequence *)
InCooldown(n) == n - serial_cooldown < REVERSE_DURATION

(* a handler that runs the sequence for every label *)
WatchedAll(label) == TRUE

(* label in detection_config.WATCH_CLASSES *)
Watched(label) == label \in WATCH_CLASSES

(* a handler that filters on the watch set before it records the event *)
AcceptedIfWatched(e) == e.type = "detection" /\ e.label # "" /\ e.label \in WATCH_CLASSES

(* the filter at the head of _handle_event *)
Accepted(e) == e.type = "detection" /\ e.label # ""

(* the line each send writes *)
StopLine == <<"STOP">>
ReverseLine == <<"REV", 80, REVERSE_DURATION>>
ForwardLine == <<"FWD", 100>>

(* what a send hands to the serial line; ok is the boolean it returns *)
Command(line, t, ok) ==
    [line |-> line, by |-> t, at |-> clock, ok |-> ok, ev |-> Payload(cur[t])]

(* time of the latest STOP on the wire, -1 when there is none *)
RECURSIVE LastAt(_, _)
LastAt(w, line) ==
    IF w = <<>> THEN -1
    ELSE IF w[Len(w)].line = line THEN w[Len(w)].at
    ELSE LastAt(SubSeq(w, 1, Len(w) - 1), line)

(* OrchestratorRuntime.__init__ under a configuration *)
SeqStart(watch, resume) ==
    /\ WATCH_CLASSES = watch
    /\ RESUME_WITH_FORWARD = resume
    /\ clock = StartTime
    /\ queue = [t \in Threads |-> <<>>]
    /\ cur = [t \in Threads |-> NoEvent]
    /\ pc = [t \in Threads |-> "idle"]
    /\ now = [t \in Threads |-> 0]
    /\ wake = [t \in Threads |-> 0]
    /\ serial_lock = 0
    /\ serial_cooldown = 0
    /\ event_log = <<>>
    /\ last_detection = NoDetection
    /\ wire = <<>>
    /\ arrived = [t \in Threads |-> -1]
    /\ scn = 0
    /\ verdict = NoVerdict

(* the detector emits an event towards context t *)
Arrive(t, k) ==
    /\ (clock - StartTime) \in ArrivalInstants(t)
    /\ arrived[t] < clock
    /\ LET e == [type |-> k.type, label |-> k.label, at |-> clock] IN
         /\ queue' = [queue EXCEPT ![t] = Append(@, e)]
         /\ scn' = IF t = 1 /\ scn >= 0 /\ scn < Len(Scenario) /\ e = Scenario[scn + 1]
                   THEN scn + 1 ELSE -1
    /\ arrived' = [arrived EXCEPT ![t] = clock]
    /\ UNCHANGED <<WATCH_CLASSES, RESUME_WITH_FORWARD, clock, cur, pc, now, wake,
                   serial_lock, serial_cooldown, event_log, last_detection, wire, verdict>>
    /\ UNCHANGED <<hubVars, clientVars, supVars, regVars, lineVars, statusVars>>

(* a read loop that dispatches the next frame while its callback is still running *)
CanDispatchAlways(t) == TRUE

(* the callback is called inline: the context takes up its next event only once the
   previous call has returned *)
CanDispatch(t) == pc[t] = "idle"

(* _handle_event up to `self.last_detection = payload` *)
HandleEvent(t) ==
    /\ CanDispatch(t)
    /\ queue[t] # <<>>
    /\ queue' = [queue EXCEPT ![t] = Tail(@)]
    /\ LET e == Head(queue[t]) IN
         IF Accepted(e)
         THEN /\ last_detection' = Payload(e)
              /\ cur' = [cur EXCEPT ![t] = e]
              /\ pc' = [pc EXCEPT ![t] = "append"]
         ELSE /\ UNCHANGED <<last_detection, cur, pc>>
    /\ UNCHANGED <<WATCH_CLASSES, RESUME_WITH_FORWARD, clock, now, wake,
                   serial_lock, serial_cooldown, event_log, wire, arrived, scn, verdict>>
    /\ UNCHANGED <<hubVars, clientVars, supVars, regVars, lineVars, statusVars>>

(* `self.event_log.appendleft(payload)`, the watch test and `now = time.time()` *)
AppendLog(t) ==
    /\ pc[t] = "append"
    /\ event_log' = AppendLeft(event_log, Payload(cur[t]))
    /\ IF Watched(cur[t].label)
       THEN /\ now' = [now EXCEPT ![t] = clock]
            /\ pc' = [pc EXCEPT ![t] = "lock"]
            /\ UNCHANGED cur
       ELSE /\ pc' = [pc EXCEPT ![t] = "idle"]
            /\ cur' = [cur EXCEPT ![t] = NoEvent]
            /\ UNCHANGED now
    /\ UNCHANGED <<WATCH_CLASSES, RESUME_WITH_FORWARD, clock, queue, wake,
                   serial_lock, serial_cooldown, last_detection, wire, arrived, scn, verdict>>
    /\ UNCHANGED <<hubVars, clientVars, supVars, regVars, lineVars, statusVars>>

(* a sequence that gives up after a failed transmission *)
ContinuesIfSent(ok) == ok

(* whether the sequence goes on after a send returned ok: the result is not read *)
Continues(ok) == TRUE

(* the handler returns: the context is idle again *)
Return(t) ==
    /\ pc' = [pc EXCEPT ![t] = "idle"]
    /\ cur' = [cur EXCEPT ![t] = NoEvent]
    /\ now' = [now EXCEPT ![t] = 0]
    /\ wake' = [wake EXCEPT ![t] = 0]

(* `with self.serial_lock:` entered; cooldown test; stop.send(); sleep starts *)
Acquire(t, ok) ==
    /\ pc[t] = "lock"
    /\ LockFree
    /\ verdict' = [at |-> cur[t].at, by |-> t, ran |-> ~InCooldown(now[t]),
                   prev |-> LastAt(wire, StopLine)]
    /\ IF InCooldown(now[t])
       THEN /\ Return(t)
            /\ UNCHANGED <<serial_lock, wire>>
       ELSE /\ wire' = Append(wire, Command(StopLine, t, ok))
            /\ IF Continues(ok)
               THEN /\ serial_lock' = t
                    /\ wake' = [wake EXCEPT ![t] = clock + STOP_TO_REVERSE_DELAY]
                    /\ pc' = [pc EXCEPT ![t] = "sleep_rev"]
                    /\ UNCHANGED <<cur, now>>
               ELSE /\ Return(t)
                    /\ UNCHANGED serial_lock
    /\ UNCHANGED <<WATCH_CLASSES, RESUME_WITH_FORWARD, clock, queue,
                   serial_cooldown, event_log, last_detection, arrived, scn>>
    /\ UNCHANGED <<hubVars, clientVars, supVars, regVars, lineVars, statusVars>>

(* a sequence that never records its trigger time *)
StampKept(ok) == serial_cooldown

(* a sequence that records its trigger time only when REVERSE was transmitted *)
StampIfSent(ok) == IF ok THEN clock ELSE serial_cooldown

(* `self._serial_cooldown = time.time()` after reverse.send returned ok *)
CooldownStamp(ok) == clock

(* reverse.send(duration=REVERSE_DURATION); self._serial_cooldown = time.time() *)
SendReverse(t, ok) ==
    /\ pc[t] = "sleep_rev"
    /\ clock >= wake[t]
    /\ wire' = Append(wire, Command(ReverseLine, t, ok))
    /\ serial_cooldown' = CooldownStamp(ok)
    /\ IF RESUME_WITH_FORWARD /\ Continues(ok)
       THEN /\ wake' = [wake EXCEPT ![t] = clock + FORWARD_RESUME_DELAY]
            /\ pc' = [pc EXCEPT ![t] = "sleep_fwd"]
            /\ UNCHANGED <<serial_lock, cur, now>>
       ELSE /\ Return(t)
            /\ serial_lock' = 0
    /\ UNCHANGED <<WATCH_CLASSES, RESUME_WITH_FORWARD, clock, queue,
                   event_log, last_detection, arrived, scn, verdict>>
    /\ UNCHANGED <<hubVars, clientVars, supVars, regVars, lineVars, statusVars>>

(* forward.send(); the lock is released on leaving the with block *)
SendForward(t, ok) ==
    /\ pc[t] = "sleep_fwd"
    /\ clock >= wake[t]
    /\ wire' = Append(wire, Command(ForwardLine, t, ok))
    /\ Return(t)
    /\ serial_lock' = 0
    /\ UNCHANGED <<WATCH_CLASSES, RESUME_WITH_FORWARD, clock, queue,
                   serial_cooldown, event_log, last_detection, arrived, scn, verdict>>
    /\ UNCHANGED <<hubVars, clientVars, supVars, regVars, lineVars, statusVars>>

MaxManual == 1    \* commands issued through the /cmd endpoints in one run

(* the commands on the wire that came through the /cmd endpoints *)
Manual(w) == {i \in 1..Len(w) : w[i].by = 0}

(* POST /cmd/stop, /cmd/reverse or /cmd/forward with the default parameters: the
   handler calls send directly; ok is the boolean it returns *)
ManualCmd(line, ok) ==
    /\ Cardinality(Manual(wire)) < MaxManual
    /\ wire' = Append(wire, [line |-> line, by |-> 0, at |-> clock, ok |-> ok,
                             ev |-> Payload(NoEvent)])
    /\ UNCHANGED <<WATCH_CLASSES, RESUME_WITH_FORWARD, clock, queue, cur, pc, now, wake,
                   serial_lock, serial_cooldown, event_log, last_detection,
                   arrived, scn, verdict>>
    /\ UNCHANGED <<hubVars, clientVars, supVars, regVars, lineVars, statusVars>>

(* a context can take a step at the current instant *)
Runnable(t) ==
    \/ pc[t] = "idle" /\ queue[t] # <<>>
    \/ pc[t] = "append"
    \/ pc[t] = "lock" /\ LockFree
    \/ pc[t] \in {"sleep_rev", "sleep_fwd"} /\ clock >= wake[t]

(* the instants at which something can happen *)
Instants ==
    {StartTime + a : a \in UNION {ArrivalInstants(t) : t \in Threads}}
        \cup {wake[t] : t \in {u \in Threads : pc[u] \in {"sleep_rev", "sleep_fwd"}}}

(* time passes, up to the next instant at which something can happen, once every
   context is blocked or sleeping *)
Tick ==
    /\ \A t \in Threads : ~Runnable(t)
    /\ \E i \in Instants :
         /\ i > clock
         /\ i <= StartTime + MaxTime
         /\ \A j \in Instants : j > clock => i <= j
         /\ clock' = i
    /\ UNCHANGED <<WATCH_CLASSES, RESUME_WITH_FORWARD, queue, cur, pc, now, wake,
                   serial_lock, serial_cooldown, event_log, last_detection, wire,
                   arrived, scn, verdict>>
    /\ UNCHANGED <<hubVars, clientVars, supVars, regVars, lineVars, statusVars>>

(* ---------------------------------------------------------------------- *)
(* Broadcast hub: DetectionState of src/backend/yolo_server.py            *)
(* ---------------------------------------------------------------------- *)
MaxSubscribers == 2   \* subscriber queues created in one run
MaxPublish == 3       \* payloads broadcast in one run

QueueIds == 1..MaxSubscribers


HubStart ==
    /\ hub_lock = "free"
    /\ event_queues = <<>>
    /\ qbuf = [q \in QueueIds |-> <<>>]
    /\ qstate = [q \in QueueIds |-> "unused"]
    /\ loopq = <<>>
    /\ bpc = "idle"
    /\ bqueues = <<>>
    /\ bpayload = 0
    /\ received = [q \in QueueIds |-> <<>>]
    /\ published = <<>>
    /\ regAt = [q \in QueueIds |-> 0]

(* list.remove *)
RECURSIVE Remove(_, _)
Remove(list, x) ==
    IF list = <<>> THEN <<>>
    ELSE IF Head(list) = x THEN Tail(list)
    ELSE <<Head(list)>> \o Remove(Tail(list), x)

(* a snapshot that misses the first subscriber *)
SnapshotWithoutFirst == IF event_queues = <<>> THEN <<>> ELSE Tail(event_queues)

(* `queues = list(self.event_queues)` *)
Snapshot == event_queues

(* a broadcast that keeps the lock while it hands the payload over *)
LockKeptForDelivery == "broadcast"

(* the lock once the `with self.lock` block of broadcast is left *)
LockAfterSnapshot == "free"

(* state.set_event_loop(loop) runs in on_startup, before the detection thread starts *)
LoopSet == TRUE

(* events_endpoint: register_queue creates the queue and appends it under the lock *)
Subscribe(q) ==
    /\ qstate[q] = "unused"
    /\ \A r \in QueueIds : r < q => qstate[r] # "unused"
    /\ hub_lock = "free"
    /\ event_queues' = Append(event_queues, q)
    /\ qstate' = [qstate EXCEPT ![q] = "registered"]
    /\ regAt' = [regAt EXCEPT ![q] = Len(published)]
    /\ UNCHANGED <<hub_lock, qbuf, loopq, bpc, bqueues, bpayload, received, published>>
    /\ UNCHANGED <<seqVars, clientVars, supVars, regVars, lineVars, statusVars>>

(* _event_publisher's finally: unregister_queue removes the queue under the lock *)
Unsubscribe(q) ==
    /\ qstate[q] = "registered"
    /\ hub_lock = "free"
    /\ event_queues' = Remove(event_queues, q)
    /\ qstate' = [qstate EXCEPT ![q] = "closed"]
    /\ UNCHANGED <<hub_lock, qbuf, loopq, bpc, bqueues, bpayload, received, published, regAt>>
    /\ UNCHANGED <<seqVars, clientVars, supVars, regVars, lineVars, statusVars>>

(* broadcast(payload) is called by the detection thread and enters `with self.lock` *)
BroadcastBegin ==
    /\ bpc = "idle"
    /\ Len(published) < MaxPublish
    /\ hub_lock = "free"
    /\ hub_lock' = "broadcast"
    /\ bpayload' = Len(published) + 1
    /\ bpc' = "locked"
    /\ UNCHANGED <<event_queues, qbuf, qstate, loopq, bqueues, received, published, regAt>>
    /\ UNCHANGED <<seqVars, clientVars, supVars, regVars, lineVars, statusVars>>

(* the snapshot is taken and the with block is left *)
BroadcastSnapshot ==
    /\ bpc = "locked"
    /\ bqueues' = Snapshot
    /\ hub_lock' = LockAfterSnapshot
    /\ published' = Append(published, bpayload)
    /\ bpc' = "deliver"
    /\ UNCHANGED <<event_queues, qbuf, qstate, loopq, bpayload, received, regAt>>
    /\ UNCHANGED <<seqVars, clientVars, supVars, regVars, lineVars, statusVars>>

(* one turn of `for queue in queues`: run_coroutine_threadsafe(queue.put(payload)) *)
BroadcastPut ==
    /\ bpc = "deliver"
    /\ bqueues # <<>>
    /\ loopq' = IF LoopSet THEN Append(loopq, [q |-> Head(bqueues), payload |-> bpayload])
                ELSE loopq
    /\ bqueues' = Tail(bqueues)
    /\ UNCHANGED <<hub_lock, event_queues, qbuf, qstate, bpc, bpayload, received,
                   published, regAt>>
    /\ UNCHANGED <<seqVars, clientVars, supVars, regVars, lineVars, statusVars>>

(* the for loop is exhausted and broadcast returns *)
BroadcastReturn ==
    /\ bpc = "deliver"
    /\ bqueues = <<>>
    /\ bpc' = "idle"
    /\ bpayload' = 0
    /\ UNCHANGED <<hub_lock, event_queues, qbuf, qstate, loopq, bqueues, received,
                   published, regAt>>
    /\ UNCHANGED <<seqVars, clientVars, supVars, regVars, lineVars, statusVars>>

(* the event loop runs the oldest scheduled coroutine: queue.put on an unbounded queue *)
LoopRun ==
    /\ loopq # <<>>
    /\ qbuf' = [qbuf EXCEPT ![Head(loopq).q] = Append(@, Head(loopq).payload)]
    /\ loopq' = Tail(loopq)
    /\ UNCHANGED <<hub_lock, event_queues, qstate, bpc, bqueues, bpayload, received,
                   published, regAt>>
    /\ UNCHANGED <<seqVars, clientVars, supVars, regVars, lineVars, statusVars>>

(* _event_publisher: `payload = await queue.get()` and the yield *)
Consume(q) ==
    /\ qstate[q] = "registered"
    /\ qbuf[q] # <<>>
    /\ received' = [received EXCEPT ![q] = Append(@, Head(qbuf[q]))]
    /\ qbuf' = [qbuf EXCEPT ![q] = Tail(@)]
    /\ UNCHANGED <<hub_lock, event_queues, qstate, loopq, bpc, bqueues, bpayload,
                   published, regAt>>
    /\ UNCHANGED <<seqVars, clientVars, supVars, regVars, lineVars, statusVars>>

(* ---------------------------------------------------------------------- *)
(* Stream client: DetectionEventsClient._run of                           *)
(* src/orchestrator/events_client.py; backoff in seconds                  *)
(* ---------------------------------------------------------------------- *)
MaxWaits == 4          \* reconnect waits of one run loop
MaxConnects == 2       \* connections one run loop opens with a success status
MaxFrames == 2         \* frames read on one connection
MaxStarts == 2         \* start() calls in one run
MaxStops == 2          \* stop() calls in one run
BACKOFF_CAP == 30
JOIN_TIMEOUT == 2
BackoffBases == {2, 16, 40}   \* configured values of SSE_BACKOFF_SEC

(* what a frame's data lines hold: a JSON object, JSON of another type, text that is
   not JSON, or no data line at all *)
FrameKinds == {"object", "nonobject", "garbage", "nodata"}

(* DetectionEventsClient.__init__: no thread, stop signal clear *)
ClientStart(base) ==
    /\ SSE_BACKOFF_SEC = base
    /\ cpc = "none"
    /\ backoff = base
    /\ stop_event = FALSE
    /\ sleep_left = 0
    /\ caller = "out"
    /\ join_waited = 0
    /\ frame = ""
    /\ waits = <<>>
    /\ connected = 0
    /\ sinceOk = FALSE
    /\ frames = <<>>
    /\ starts = 0
    /\ stops = 0

(* `backoff = min(backoff * 2, 30)` *)
NextBackoff(b) == IF b * 2 < BACKOFF_CAP THEN b * 2 ELSE BACKOFF_CAP

(* `self._thread and self._thread.is_alive()` *)
Alive == cpc \in {"loop", "connect", "streaming", "dispatch", "callback", "sleep"}

(* a join without a timeout *)
JoinNeverExpires(w) == FALSE

(* `self._thread.join(timeout=2.0)` has used up its timeout *)
JoinExpired(w) == w >= JOIN_TIMEOUT

(* a decoder that hands every frame with data to the callback *)
DecodesAlways(k) == k # "nodata"

(* json.loads succeeds on the joined data lines *)
Decodes(k) == k \in {"object", "nonobject"}

(* _handle_event raises on what it is given: `event.get` on a value that is no dict *)
HandlerRaises(k) == k = "nonobject"

(* start(): no-op when the thread is alive, else clear the signal and spawn _run *)
StartCall ==
    /\ caller = "out"
    /\ starts < MaxStarts
    /\ starts' = starts + 1
    /\ IF Alive
       THEN UNCHANGED <<cpc, backoff, stop_event, sleep_left, frame, waits,
                        connected, sinceOk, frames>>
       ELSE /\ stop_event' = FALSE
            /\ cpc' = "loop"
            /\ backoff' = SSE_BACKOFF_SEC
            /\ sleep_left' = 0
            /\ frame' = ""
            /\ waits' = <<>>
            /\ connected' = 0
            /\ sinceOk' = FALSE
            /\ frames' = <<>>
    /\ UNCHANGED <<SSE_BACKOFF_SEC, caller, join_waited, stops>>
    /\ UNCHANGED <<seqVars, hubVars, supVars, regVars, lineVars, statusVars>>

(* `while not self._stop_event.is_set()` *)
LoopTest ==
    /\ cpc = "loop"
    /\ cpc' = IF stop_event THEN "stopped" ELSE "connect"
    /\ UNCHANGED <<SSE_BACKOFF_SEC, frame, backoff, stop_event, sleep_left, caller,
                   join_waited, waits, connected, sinceOk, frames, starts, stops>>
    /\ UNCHANGED <<seqVars, hubVars, supVars, regVars, lineVars, statusVars>>

(* session.get / raise_for_status raise a RequestException: time.sleep(backoff) starts *)
ConnectFail ==
    /\ cpc = "connect"
    /\ Len(waits) < MaxWaits
    /\ waits' = Append(waits, backoff)
    /\ sleep_left' = backoff
    /\ sinceOk' = FALSE
    /\ cpc' = "sleep"
    /\ UNCHANGED <<SSE_BACKOFF_SEC, frame, backoff, stop_event, caller, join_waited,
                   connected, frames, starts, stops>>
    /\ UNCHANGED <<seqVars, hubVars, supVars, regVars, lineVars, statusVars>>

(* the stream is opened with a success status *)
ConnectOk ==
    /\ cpc = "connect"
    /\ connected < MaxConnects
    /\ connected' = connected + 1
    /\ sinceOk' = TRUE
    /\ frames' = <<>>
    /\ cpc' = "streaming"
    /\ UNCHANGED <<SSE_BACKOFF_SEC, frame, backoff, stop_event, sleep_left, caller,
                   join_waited, waits, starts, stops>>
    /\ UNCHANGED <<seqVars, hubVars, supVars, regVars, lineVars, statusVars>>

(* iter_lines yields the blank line that ends a frame; the stop signal is tested
   first and breaks the read loop, which leaves the with block and resets the backoff *)
FrameRead(k) ==
    /\ cpc = "streaming"
    /\ Len(frames) < MaxFrames
    /\ IF stop_event
       THEN /\ cpc' = "loop"
            /\ backoff' = SSE_BACKOFF_SEC
            /\ UNCHANGED frame
       ELSE /\ cpc' = "dispatch"
            /\ frame' = k
            /\ UNCHANGED backoff
    /\ UNCHANGED <<SSE_BACKOFF_SEC, stop_event, sleep_left, caller, join_waited,
                   waits, connected, sinceOk, frames, starts, stops>>
    /\ UNCHANGED <<seqVars, hubVars, supVars, regVars, lineVars, statusVars>>

(* _dispatch(raw_event) and event_lines.clear(): no data line, undecodable data, or
   on_event(payload); an exception of the callback other than JSONDecodeError ends
   the thread *)
Dispatch ==
    /\ cpc = "dispatch"
    /\ IF frame = "nodata"
       THEN /\ frames' = Append(frames, "skipped")
            /\ cpc' = "streaming"
       ELSE IF ~Decodes(frame)
       THEN /\ frames' = Append(frames, "dropped")
            /\ cpc' = "streaming"
       ELSE /\ frames' = Append(frames, "called")
            /\ cpc' = IF HandlerRaises(frame) THEN "crashed" ELSE "callback"
    /\ frame' = ""
    /\ UNCHANGED <<SSE_BACKOFF_SEC, backoff, stop_event, sleep_left, caller,
                   join_waited, waits, connected, sinceOk, starts, stops>>
    /\ UNCHANGED <<seqVars, hubVars, supVars, regVars, lineVars, statusVars>>

(* on_event returns, after the safety sequence if it ran one *)
CallbackReturn ==
    /\ cpc = "callback"
    /\ cpc' = "streaming"
    /\ UNCHANGED <<SSE_BACKOFF_SEC, frame, backoff, stop_event, sleep_left, caller,
                   join_waited, waits, connected, sinceOk, frames, starts, stops>>
    /\ UNCHANGED <<seqVars, hubVars, supVars, regVars, lineVars, statusVars>>

(* the stream ends: the with block is left and the backoff is reset *)
StreamEnd ==
    /\ cpc = "streaming"
    /\ backoff' = SSE_BACKOFF_SEC
    /\ cpc' = "loop"
    /\ UNCHANGED <<SSE_BACKOFF_SEC, frame, stop_event, sleep_left, caller, join_waited,
                   waits, connected, sinceOk, frames, starts, stops>>
    /\ UNCHANGED <<seqVars, hubVars, supVars, regVars, lineVars, statusVars>>

(* reading the stream raises a RequestException: time.sleep(backoff) starts *)
StreamError ==
    /\ cpc = "streaming"
    /\ Len(waits) < MaxWaits
    /\ waits' = Append(waits, backoff)
    /\ sleep_left' = backoff
    /\ sinceOk' = FALSE
    /\ cpc' = "sleep"
    /\ UNCHANGED <<SSE_BACKOFF_SEC, frame, backoff, stop_event, caller, join_waited,
                   connected, frames, starts, stops>>
    /\ UNCHANGED <<seqVars, hubVars, supVars, regVars, lineVars, statusVars>>

(* time.sleep(backoff) returns and the backoff is doubled *)
SleepDone ==
    /\ cpc = "sleep"
    /\ sleep_left = 0
    /\ backoff' = NextBackoff(backoff)
    /\ cpc' = "loop"
    /\ UNCHANGED <<SSE_BACKOFF_SEC, frame, stop_event, sleep_left, caller, join_waited,
                   waits, connected, sinceOk, frames, starts, stops>>
    /\ UNCHANGED <<seqVars, hubVars, supVars, regVars, lineVars, statusVars>>

(* stop(): set the stop signal, then join the thread if there is one *)
ClientStop ==
    /\ caller = "out"
    /\ stops < MaxStops
    /\ stops' = stops + 1
    /\ stop_event' = TRUE
    /\ caller' = IF cpc # "none" THEN "joining" ELSE "out"
    /\ join_waited' = 0
    /\ UNCHANGED <<SSE_BACKOFF_SEC, frame, cpc, backoff, sleep_left, waits, connected,
                   sinceOk, frames, starts>>
    /\ UNCHANGED <<seqVars, hubVars, supVars, regVars, lineVars, statusVars>>

(* join returns: the thread has ended or the timeout is used up *)
JoinReturn ==
    /\ caller = "joining"
    /\ ~Alive \/ JoinExpired(join_waited)
    /\ caller' = "out"
    /\ join_waited' = 0
    /\ UNCHANGED <<SSE_BACKOFF_SEC, frame, cpc, backoff, stop_event, sleep_left, waits,
                   connected, sinceOk, frames, starts, stops>>
    /\ UNCHANGED <<seqVars, hubVars, supVars, regVars, lineVars, statusVars>>

(* a step of the client that takes no time is due *)
ClientUrgent ==
    \/ cpc \in {"loop", "dispatch"}
    \/ cpc = "sleep" /\ sleep_left = 0
    \/ caller = "joining" /\ (~Alive \/ JoinExpired(join_waited))

(* the running timers: what is left of the sleep and of the join timeout *)
Timers ==
    (IF cpc = "sleep" THEN {sleep_left} ELSE {})
        \cup (IF caller = "joining" /\ join_waited < JOIN_TIMEOUT
              THEN {JOIN_TIMEOUT - join_waited} ELSE {})

(* time passes until the first running timer expires *)
Elapse ==
    /\ ~ClientUrgent
    /\ \E d \in Timers :
         /\ \A e \in Timers : d <= e
         /\ sleep_left' = IF cpc = "sleep" THEN sleep_left - d ELSE sleep_left
         /\ join_waited' = IF caller = "joining" THEN join_waited + d ELSE join_waited
    /\ UNCHANGED <<SSE_BACKOFF_SEC, frame, cpc, backoff, stop_event, caller, waits,
                   connected, sinceOk, frames, starts, stops>>
    /\ UNCHANGED <<seqVars, hubVars, supVars, regVars, lineVars, statusVars>>

(* ---------------------------------------------------------------------- *)
(* Process supervisor: OrchestratorRuntime.start / stop and the detector  *)
(* subprocess (src/orchestrator/main.py); time in seconds                 *)
(* ---------------------------------------------------------------------- *)
MaxChildren == 2       \* subprocesses spawned in one run
MaxStartups == 2       \* start() calls in one run
MaxShutdowns == 2      \* stop() calls in one run
HEALTH_TIMEOUT == 45   \* `timeout` of _wait_for_yolo_health
REQUEST_TIMEOUT == 3   \* timeout of one health request
POLL_INTERVAL == 1     \* sleep between two polls
GRACE_PERIOD == 5      \* `wait` of _terminate_process
SIGTERM == 15
SIGKILL == 9

Children == 1..MaxChildren
OwnExitCodes == {0, 1}   \* exit codes of a child that ends by itself
HealthUrl == "http://127.0.0.1:8001/health"

NoOutcome == [kind |-> "none", code |-> 0, url |-> ""]

(* OrchestratorRuntime.__init__: nothing launched, started or registered *)
SupStart ==
    /\ yolo_process = 0
    /\ pstate = [c \in Children |-> "unborn"]
    /\ pready = [c \in Children |-> FALSE]
    /\ returncode = [c \in Children |-> 0]
    /\ signals = [c \in Children |-> <<>>]
    /\ rpc = "idle"
    /\ health_elapsed = 0
    /\ outcome = NoOutcome
    /\ events_client = FALSE
    /\ zeroconf_handle = FALSE
    /\ grace_left = 0
    /\ startups = 0
    /\ shutdowns = 0
    /\ teardown = <<>>
    /\ tally = [client_starts |-> 0, client_stops |-> 0, registers |-> 0, closes |-> 0]

(* process.poll() is None *)
Running(c) == pstate[c] = "running"

(* a launch that does not look at the tracked process *)
TrackedNever == FALSE

(* `self.yolo_process and self.yolo_process.poll() is None` *)
TrackedRunning == yolo_process # 0 /\ Running(yolo_process)

(* a health wait that does not look at the child *)
ExitNeverObserved == FALSE

(* `self.yolo_process and self.yolo_process.poll() is not None` *)
ExitObserved == yolo_process # 0 /\ ~Running(yolo_process)

(* `while time.time() - start_time < timeout` is left *)
TimedOut(e) == e >= HEALTH_TIMEOUT

(* a start() that goes on whatever the health wait reports *)
AfterHealthAlways(kind) == "client"

(* where start() goes after _wait_for_yolo_health: on, or out with the error *)
AfterHealth(kind) == IF kind = "ok" THEN "client" ELSE "idle"

(* a wait that gives up at once *)
GraceNotAwaited(g) == TRUE

(* process.wait(timeout=wait) raises TimeoutExpired *)
GraceExpired(g) == g = 0

(* start() is entered *)
RuntimeStart ==
    /\ rpc = "idle"
    /\ startups < MaxStartups
    /\ startups' = startups + 1
    /\ rpc' = "launch"
    /\ UNCHANGED <<yolo_process, pstate, pready, returncode, signals, health_elapsed,
                   outcome, events_client, zeroconf_handle, grace_left, shutdowns>>
    /\ UNCHANGED <<teardown, tally>>
    /\ UNCHANGED <<seqVars, hubVars, clientVars, regVars, lineVars, statusVars>>

(* _launch_yolo_server: no-op when the tracked child runs, else Popen and record;
   start() goes on to _wait_for_yolo_health, which reads start_time *)
LaunchYoloServer ==
    /\ rpc = "launch"
    /\ IF TrackedRunning
       THEN UNCHANGED <<yolo_process, pstate>>
       ELSE \E c \in Children :
              /\ pstate[c] = "unborn"
              /\ \A b \in Children : b < c => pstate[b] # "unborn"
              /\ pstate' = [pstate EXCEPT ![c] = "running"]
              /\ yolo_process' = c
    /\ rpc' = "health"
    /\ health_elapsed' = 0
    /\ outcome' = NoOutcome
    /\ UNCHANGED <<pready, returncode, signals, events_client, zeroconf_handle,
                   grace_left, startups, shutdowns>>
    /\ UNCHANGED <<teardown, tally>>
    /\ UNCHANGED <<seqVars, hubVars, clientVars, regVars, lineVars, statusVars>>

(* the detector has loaded and its health endpoint answers *)
ChildReady(c) ==
    /\ Running(c)
    /\ ~pready[c]
    /\ pready' = [pready EXCEPT ![c] = TRUE]
    /\ UNCHANGED <<yolo_process, pstate, returncode, signals, rpc, health_elapsed,
                   outcome, events_client, zeroconf_handle, grace_left, startups,
                   shutdowns>>
    /\ UNCHANGED <<teardown, tally>>
    /\ UNCHANGED <<seqVars, hubVars, clientVars, regVars, lineVars, statusVars>>

(* the child ends, by itself or on the termination signal it was sent *)
ChildExit(c, code) ==
    /\ Running(c)
    /\ \/ code \in OwnExitCodes
       \/ code = -SIGTERM /\ signals[c] # <<>>
    /\ pstate' = [pstate EXCEPT ![c] = "exited"]
    /\ pready' = [pready EXCEPT ![c] = FALSE]
    /\ returncode' = [returncode EXCEPT ![c] = code]
    /\ UNCHANGED <<yolo_process, signals, rpc, health_elapsed, outcome, events_client,
                   zeroconf_handle, grace_left, startups, shutdowns>>
    /\ UNCHANGED <<teardown, tally>>
    /\ UNCHANGED <<seqVars, hubVars, clientVars, regVars, lineVars, statusVars>>

(* one turn of the loop of _wait_for_yolo_health: the timeout test, the test of the
   child, one health request that takes d seconds, and the sleep *)
WaitForYoloHealth(d) ==
    /\ rpc = "health"
    /\ IF TimedOut(health_elapsed)
       THEN /\ outcome' = [kind |-> "timeout", code |-> 0, url |-> HealthUrl]
            /\ rpc' = AfterHealth("timeout")
            /\ UNCHANGED health_elapsed
       ELSE IF ExitObserved
       THEN /\ outcome' = [kind |-> "exited", code |-> returncode[yolo_process],
                           url |-> ""]
            /\ rpc' = AfterHealth("exited")
            /\ UNCHANGED health_elapsed
       ELSE IF d = 0 /\ yolo_process # 0 /\ pready[yolo_process]
       THEN /\ outcome' = [kind |-> "ok", code |-> 0, url |-> ""]
            /\ rpc' = AfterHealth("ok")
            /\ UNCHANGED health_elapsed
       ELSE /\ health_elapsed' = health_elapsed + d + POLL_INTERVAL
            /\ UNCHANGED <<outcome, rpc>>
    /\ UNCHANGED <<yolo_process, pstate, pready, returncode, signals, events_client,
                   zeroconf_handle, grace_left, startups, shutdowns>>
    /\ UNCHANGED <<teardown, tally>>
    /\ UNCHANGED <<seqVars, hubVars, clientVars, regVars, lineVars, statusVars>>

(* _start_event_client *)
StartEventClient ==
    /\ rpc = "client"
    /\ events_client' = TRUE
    /\ tally' = [tally EXCEPT !.client_starts = @ + 1]
    /\ UNCHANGED teardown
    /\ rpc' = "mdns"
    /\ UNCHANGED <<yolo_process, pstate, pready, returncode, signals, health_elapsed,
                   outcome, zeroconf_handle, grace_left, startups, shutdowns>>
    /\ UNCHANGED <<seqVars, hubVars, clientVars, regVars, lineVars, statusVars>>

(* _register_mdns; start() returns *)
RegisterMdns ==
    /\ rpc = "mdns"
    /\ zeroconf_handle' = TRUE
    /\ tally' = [tally EXCEPT !.registers = @ + 1]
    /\ UNCHANGED teardown
    /\ rpc' = "idle"
    /\ UNCHANGED <<yolo_process, pstate, pready, returncode, signals, health_elapsed,
                   outcome, events_client, grace_left, startups, shutdowns>>
    /\ UNCHANGED <<seqVars, hubVars, clientVars, regVars, lineVars, statusVars>>

(* an event client that stays recorded after it was stopped *)
ClientKept == TRUE

(* `self.events_client = None` *)
ClientDropped == FALSE

(* stop() is entered: `self._shutdown.set()` *)
RuntimeStop ==
    /\ rpc = "idle"
    /\ shutdowns < MaxShutdowns
    /\ shutdowns' = shutdowns + 1
    /\ teardown' = <<>>
    /\ rpc' = "stop_client"
    /\ UNCHANGED <<yolo_process, pstate, pready, returncode, signals, health_elapsed,
                   outcome, events_client, zeroconf_handle, grace_left, startups, tally>>
    /\ UNCHANGED <<seqVars, hubVars, clientVars, regVars, lineVars, statusVars>>

(* `if self.events_client:` stop it and drop it *)
StopEventClient ==
    /\ rpc = "stop_client"
    /\ IF events_client
       THEN /\ teardown' = Append(teardown, "client")
            /\ tally' = [tally EXCEPT !.client_stops = @ + 1]
            /\ events_client' = ClientDropped
       ELSE UNCHANGED <<teardown, tally, events_client>>
    /\ rpc' = "stop_mdns"
    /\ UNCHANGED <<yolo_process, pstate, pready, returncode, signals, health_elapsed,
                   outcome, zeroconf_handle, grace_left, startups, shutdowns>>
    /\ UNCHANGED <<seqVars, hubVars, clientVars, regVars, lineVars, statusVars>>

(* `if self.zeroconf_handle:` close it and drop it; then `if self.yolo_process:` *)
CloseZeroconf ==
    /\ rpc = "stop_mdns"
    /\ IF zeroconf_handle
       THEN /\ teardown' = Append(teardown, "mdns")
            /\ tally' = [tally EXCEPT !.closes = @ + 1]
            /\ zeroconf_handle' = FALSE
       ELSE UNCHANGED <<teardown, tally, zeroconf_handle>>
    /\ rpc' = IF yolo_process # 0 THEN "terminate" ELSE "idle"
    /\ UNCHANGED <<yolo_process, pstate, pready, returncode, signals, health_elapsed,
                   outcome, events_client, grace_left, startups, shutdowns>>
    /\ UNCHANGED <<seqVars, hubVars, clientVars, regVars, lineVars, statusVars>>

(* stop() is left: `self.yolo_process = None` *)
Untrack ==
    /\ yolo_process' = 0
    /\ rpc' = "idle"
    /\ grace_left' = 0

(* _terminate_process: return when the process has exited, else terminate() and the
   wait begins *)
TerminateProcess ==
    /\ rpc = "terminate"
    /\ teardown' = Append(teardown, "process")
    /\ UNCHANGED tally
    /\ IF ~Running(yolo_process)
       THEN /\ Untrack
            /\ UNCHANGED signals
       ELSE /\ signals' = [signals EXCEPT ![yolo_process] = Append(@, SIGTERM)]
            /\ grace_left' = GRACE_PERIOD
            /\ rpc' = "term_wait"
            /\ UNCHANGED yolo_process
    /\ UNCHANGED <<pstate, pready, returncode, health_elapsed, outcome, events_client,
                   zeroconf_handle, startups, shutdowns>>
    /\ UNCHANGED <<seqVars, hubVars, clientVars, regVars, lineVars, statusVars>>

(* process.wait returns: the child has exited within the grace period *)
WaitReturn ==
    /\ rpc = "term_wait"
    /\ ~Running(yolo_process)
    /\ Untrack
    /\ UNCHANGED <<pstate, pready, returncode, signals, health_elapsed, outcome,
                   events_client, zeroconf_handle, startups, shutdowns>>
    /\ UNCHANGED <<teardown, tally>>
    /\ UNCHANGED <<seqVars, hubVars, clientVars, regVars, lineVars, statusVars>>

(* the grace period passes while the child keeps running *)
GracePasses ==
    /\ rpc = "term_wait"
    /\ Running(yolo_process)
    /\ grace_left > 0
    /\ grace_left' = 0
    /\ UNCHANGED <<yolo_process, pstate, pready, returncode, signals, rpc,
                   health_elapsed, outcome, events_client, zeroconf_handle, startups,
                   shutdowns>>
    /\ UNCHANGED <<teardown, tally>>
    /\ UNCHANGED <<seqVars, hubVars, clientVars, regVars, lineVars, statusVars>>

(* process.wait raises TimeoutExpired: process.kill() ends the child *)
ForceKill ==
    /\ rpc = "term_wait"
    /\ Running(yolo_process)
    /\ GraceExpired(grace_left)
    /\ signals' = [signals EXCEPT ![yolo_process] = Append(@, SIGKILL)]
    /\ pstate' = [pstate EXCEPT ![yolo_process] = "exited"]
    /\ pready' = [pready EXCEPT ![yolo_process] = FALSE]
    /\ returncode' = [returncode EXCEPT ![yolo_process] = -SIGKILL]
    /\ Untrack
    /\ UNCHANGED <<health_elapsed, outcome, events_client, zeroconf_handle, startups,
                   shutdowns>>
    /\ UNCHANGED <<teardown, tally>>
    /\ UNCHANGED <<seqVars, hubVars, clientVars, regVars, lineVars, statusVars>>

(* ---------------------------------------------------------------------- *)
(* Service registry: ZeroconfHandle of                                    *)
(* src/backend/utils/zeroconf_register.py and discover_first of           *)
(* src/orchestrator/mdns_discover.py; time in seconds                     *)
(* ---------------------------------------------------------------------- *)
MaxRegistryCalls == 4    \* calls on one handle
MaxDiscoverCalls == 2    \* discover_first calls in one run
MaxSightings == 2        \* services that appear during one discover_first call
DISCOVER_TIMEOUT == 3    \* default `timeout` of discover_first

ServiceNames == {"a", "b"}
SightingTimes == {1, 4}
Sightings == [name : ServiceNames, at : SightingTimes, resolved : BOOLEAN]
NoneFound == [kind |-> "none", name |-> "", at |-> 0, closed |-> FALSE]

(* ZeroconfHandle.__post_init__, and no discover_first call yet *)
RegStart ==
    /\ info = FALSE
    /\ zeroconf_open = TRUE
    /\ announced = FALSE
    /\ ztally = [published |-> 0, withdrawn |-> 0, unpublished |-> 0, raised |-> 0]
    /\ zcalls = 0
    /\ sightings = <<>>
    /\ found = NoneFound
    /\ dcalls = 0

(* register(): `self._info` is assigned before zeroconf.register_service is called;
   ok tells whether the publication succeeds (it cannot on a closed instance) *)
Register(ok) ==
    /\ zcalls < MaxRegistryCalls
    /\ zcalls' = zcalls + 1
    /\ IF info
       THEN UNCHANGED <<info, announced, ztally>>
       ELSE /\ info' = TRUE
            /\ IF ok /\ zeroconf_open
               THEN /\ announced' = TRUE
                    /\ ztally' = [ztally EXCEPT !.published = @ + 1]
               ELSE UNCHANGED <<announced, ztally>>
    /\ UNCHANGED <<zeroconf_open, sightings, found, dcalls>>
    /\ UNCHANGED <<seqVars, hubVars, clientVars, supVars, lineVars, statusVars>>

(* the body of unregister(): zeroconf.unregister_service(self._info) is called whenever
   `_info` is set, and `_info` is cleared when it returns; ok tells whether the
   library accepts a withdrawal of a record it has not published *)
Withdraw(ok) ==
    IF ~info
    THEN UNCHANGED <<info, announced, ztally>>
    ELSE IF announced
    THEN /\ announced' = FALSE
         /\ info' = FALSE
         /\ ztally' = [ztally EXCEPT !.withdrawn = @ + 1]
    ELSE /\ UNCHANGED announced
         /\ info' = IF ok THEN FALSE ELSE info
         /\ ztally' = [ztally EXCEPT !.unpublished = @ + 1,
                                     !.raised = IF ok THEN @ ELSE @ + 1]

(* unregister() *)
Unregister(ok) ==
    /\ zcalls < MaxRegistryCalls
    /\ zcalls' = zcalls + 1
    /\ Withdraw(ok)
    /\ UNCHANGED <<zeroconf_open, sightings, found, dcalls>>
    /\ UNCHANGED <<seqVars, hubVars, clientVars, supVars, lineVars, statusVars>>

(* close(): unregister(), and zeroconf.close() in the finally clause *)
Close(ok) ==
    /\ zcalls < MaxRegistryCalls
    /\ zcalls' = zcalls + 1
    /\ Withdraw(ok)
    /\ zeroconf_open' = FALSE
    /\ UNCHANGED <<sightings, found, dcalls>>
    /\ UNCHANGED <<seqVars, hubVars, clientVars, supVars, lineVars, statusVars>>

(* the module compiles: the `def` line 4 is followed by an unindented import, which
   is an IndentationError when the module is loaded *)
ModuleLoads == FALSE

(* the first sighting the callback keeps: one that is there before event.wait(timeout)
   gives up and whose get_service_info is not None *)
RECURSIVE FirstKept(_)
FirstKept(obs) ==
    IF obs = <<>> THEN NoneFound
    ELSE IF Head(obs).resolved /\ Head(obs).at < DISCOVER_TIMEOUT
    THEN [kind |-> "found", name |-> Head(obs).name, at |-> Head(obs).at, closed |-> TRUE]
    ELSE FirstKept(Tail(obs))

(* the body of discover_first: browse, event.wait(timeout), zeroconf.close(), return *)
DiscoverBody(obs) ==
    IF FirstKept(obs).kind = "found" THEN FirstKept(obs)
    ELSE [kind |-> "none", name |-> "", at |-> DISCOVER_TIMEOUT, closed |-> TRUE]

(* a call of discover_first while the services of obs appear, in that order *)
DiscoverFirst(obs) ==
    /\ dcalls < MaxDiscoverCalls
    /\ dcalls' = dcalls + 1
    /\ \A i \in 1..(Len(obs) - 1) : obs[i].at <= obs[i + 1].at
    /\ sightings' = obs
    /\ found' = IF ModuleLoads THEN DiscoverBody(obs)
                ELSE [kind |-> "raised", name |-> "", at |-> 0, closed |-> FALSE]
    /\ UNCHANGED <<info, zeroconf_open, announced, ztally, zcalls>>
    /\ UNCHANGED <<seqVars, hubVars, clientVars, supVars, lineVars, statusVars>>

(* ---------------------------------------------------------------------- *)
(* One connection of the stream client, line by line: the `for line in`   *)
(* loop of _run and _dispatch of src/orchestrator/events_client.py         *)
(* ---------------------------------------------------------------------- *)
MaxLines == 4            \* lines one connection yields

(* a line is its field name and its stripped value; the values are pieces of JSON text *)
Blank == [field |-> "", value |-> ""]
Tokens == {"{}", "{", "}", "7"}
LineKinds == {Blank, [field |-> ":", value |-> "ping"]} \cup [field : {"data"}, value : Tokens]

RECURSIVE SeqsUpTo(_)
SeqsUpTo(n) ==
    IF n = 0 THEN {<<>>}
    ELSE SeqsUpTo(n - 1) \cup {Append(l, k) : l \in {m \in SeqsUpTo(n - 1) : Len(m) = n - 1}, k \in LineKinds}

LineStart(ls) ==
    /\ lines = ls
    /\ lpos = 0
    /\ event_lines = <<>>
    /\ dispatched = <<>>
    /\ lpc = "reading"
    /\ lstop = FALSE

(* line.startswith("data:") *)
IsData(l) == l.field = "data"

(* data_lines of _dispatch: the stripped values of the data lines, in order *)
RECURSIVE DataLines(_)
DataLines(ls) ==
    IF ls = <<>> THEN <<>>
    ELSE IF IsData(Head(ls)) THEN <<Head(ls).value>> \o DataLines(Tail(ls))
    ELSE DataLines(Tail(ls))

(* json.loads("".join(data_lines)): what the concatenated text is *)
Parse(ts) ==
    IF ts = <<"{}">> \/ ts = <<"{", "}">> THEN "object"
    ELSE IF ts # <<>> /\ \A i \in 1..Len(ts) : ts[i] = "7" THEN "nonobject"
    ELSE "garbage"

(* the read loop takes the next line: the stop test, the blank line that dispatches
   the collected lines (the callback runs inside the call), or the append *)
ReadLine ==
    /\ lpc = "reading"
    /\ lpos < Len(lines)
    /\ lpos' = lpos + 1
    /\ IF lstop
       THEN /\ lpc' = "ended"
            /\ UNCHANGED <<event_lines, dispatched>>
       ELSE IF lines[lpos + 1] # Blank
       THEN /\ event_lines' = Append(event_lines, lines[lpos + 1])
            /\ UNCHANGED <<dispatched, lpc>>
       ELSE IF event_lines = <<>> \/ DataLines(event_lines) = <<>>
       THEN /\ event_lines' = <<>>
            /\ UNCHANGED <<dispatched, lpc>>
       ELSE IF ~Decodes(Parse(DataLines(event_lines)))
       THEN /\ event_lines' = <<>>
            /\ UNCHANGED <<dispatched, lpc>>
       ELSE /\ dispatched' = Append(dispatched, DataLines(event_lines))
            /\ IF HandlerRaises(Parse(DataLines(event_lines)))
               THEN lpc' = "crashed" /\ UNCHANGED event_lines
               ELSE lpc' = lpc /\ event_lines' = <<>>
    /\ UNCHANGED <<lines, lstop>>
    /\ UNCHANGED <<seqVars, hubVars, clientVars, supVars, regVars, statusVars>>

(* iter_lines is exhausted: the `with` block is left and event_lines is gone *)
ConnectionEnds ==
    /\ lpc = "reading"
    /\ lpos = Len(lines)
    /\ lpc' = "ended"
    /\ event_lines' = <<>>
    /\ UNCHANGED <<lines, lpos, dispatched, lstop>>
    /\ UNCHANGED <<seqVars, hubVars, clientVars, supVars, regVars, statusVars>>

(* stop() sets _stop_event while the connection is being read *)
StopSet ==
    /\ lpc = "reading"
    /\ ~lstop
    /\ lstop' = TRUE
    /\ UNCHANGED <<lines, lpos, event_lines, dispatched, lpc>>
    /\ UNCHANGED <<seqVars, hubVars, clientVars, supVars, regVars, statusVars>>

(* ---------------------------------------------------------------------- *)
(* The status endpoint: get_status of src/orchestrator/main.py            *)
(* ---------------------------------------------------------------------- *)
MaxRequests == 2         \* /status requests in one run

NoResponse == [last_detection |-> NoDetection, event_log |-> <<>>]

StatusStart ==
    /\ spc = "idle"
    /\ response = NoResponse
    /\ requests = 0

(* get_status evaluates `rt.last_detection` *)
StatusReadDetection ==
    /\ spc \in {"idle", "done"}
    /\ requests < MaxRequests
    /\ requests' = requests + 1
    /\ response' = [last_detection |-> last_detection, event_log |-> <<>>]
    /\ spc' = "read"
    /\ UNCHANGED <<seqVars, hubVars, clientVars, supVars, regVars, lineVars>>

(* get_status evaluates `list(rt.event_log)` and returns *)
StatusReadLog ==
    /\ spc = "read"
    /\ response' = [response EXCEPT !.event_log = event_log]
    /\ spc' = "done"
    /\ UNCHANGED requests
    /\ UNCHANGED <<seqVars, hubVars, clientVars, supVars, regVars, lineVars>>

(* ---------------------------------------------------------------------- *)
(* Specifications                                                         *)
(* ---------------------------------------------------------------------- *)
DefaultWatch == {"person", "bottle"}
DefaultBackoff == 2

(* the controller's handler and sequencer, under every configuration *)
Init ==
    /\ \E w \in WatchSets, r \in BOOLEAN : SeqStart(w, r)
    /\ HubStart
    /\ ClientStart(DefaultBackoff)
    /\ SupStart
    /\ RegStart
    /\ LineStart(<<>>)
    /\ StatusStart

Next ==
    \/ \E t \in Threads, k \in EventKinds : Arrive(t, k)
    \/ \E t \in Threads : HandleEvent(t)
    \/ \E t \in Threads : AppendLog(t)
    \/ \E t \in Threads, ok \in BOOLEAN : Acquire(t, ok)
    \/ \E t \in Threads, ok \in BOOLEAN : SendReverse(t, ok)
    \/ \E t \in Threads, ok \in BOOLEAN : SendForward(t, ok)
    \/ Tick

Spec == Init /\ [][Next]_vars

(* the sequencer fed by the stream, next to the manual command endpoints *)
ManualInit ==
    /\ SeqStart(DefaultWatch, TRUE)
    /\ HubStart
    /\ ClientStart(DefaultBackoff)
    /\ SupStart
    /\ RegStart
    /\ LineStart(<<>>)
    /\ StatusStart

ManualNext ==
    \/ \E k \in EventKinds : Arrive(1, k)
    \/ HandleEvent(1)
    \/ AppendLog(1)
    \/ \E ok \in BOOLEAN : Acquire(1, ok)
    \/ \E ok \in BOOLEAN : SendReverse(1, ok)
    \/ \E ok \in BOOLEAN : SendForward(1, ok)
    \/ \E line \in {StopLine, ReverseLine, ForwardLine}, ok \in BOOLEAN : ManualCmd(line, ok)
    \/ Tick

ManualSpec == ManualInit /\ [][ManualNext]_vars

(* the stream's handler next to /status requests *)
StatusInit ==
    /\ SeqStart(DefaultWatch, TRUE)
    /\ HubStart
    /\ ClientStart(DefaultBackoff)
    /\ SupStart
    /\ RegStart
    /\ LineStart(<<>>)
    /\ StatusStart

StatusNext ==
    \/ \E k \in EventKinds : Arrive(1, k)
    \/ HandleEvent(1)
    \/ AppendLog(1)
    \/ \E ok \in BOOLEAN : Acquire(1, ok)
    \/ \E ok \in BOOLEAN : SendReverse(1, ok)
    \/ \E ok \in BOOLEAN : SendForward(1, ok)
    \/ StatusReadDetection
    \/ StatusReadLog
    \/ Tick

StatusSpec == StatusInit /\ [][StatusNext]_vars

(* the detector's broadcast hub *)
HubInit ==
    /\ SeqStart(DefaultWatch, TRUE)
    /\ HubStart
    /\ ClientStart(DefaultBackoff)
    /\ SupStart
    /\ RegStart
    /\ LineStart(<<>>)
    /\ StatusStart

HubNext ==
    \/ \E q \in QueueIds : Subscribe(q)
    \/ \E q \in QueueIds : Unsubscribe(q)
    \/ BroadcastBegin
    \/ BroadcastSnapshot
    \/ BroadcastPut
    \/ BroadcastReturn
    \/ LoopRun
    \/ \E q \in QueueIds : Consume(q)

HubSpec == HubInit /\ [][HubNext]_vars

(* the stream client's run loop, under every configured base backoff *)
ClientInit ==
    /\ SeqStart(DefaultWatch, TRUE)
    /\ HubStart
    /\ \E b \in BackoffBases : ClientStart(b)
    /\ SupStart
    /\ RegStart
    /\ LineStart(<<>>)
    /\ StatusStart

ClientNext ==
    \/ StartCall
    \/ LoopTest
    \/ ConnectFail
    \/ ConnectOk
    \/ \E k \in FrameKinds : FrameRead(k)
    \/ Dispatch
    \/ CallbackReturn
    \/ StreamEnd
    \/ StreamError
    \/ SleepDone
    \/ ClientStop
    \/ JoinReturn
    \/ Elapse

ClientSpec == ClientInit /\ [][ClientNext]_vars

(* the process supervisor: start() and stop() of the runtime, and the subprocess *)
SupInit ==
    /\ SeqStart(DefaultWatch, TRUE)
    /\ HubStart
    /\ ClientStart(DefaultBackoff)
    /\ SupStart
    /\ RegStart
    /\ LineStart(<<>>)
    /\ StatusStart

SupNext ==
    \/ RuntimeStart
    \/ LaunchYoloServer
    \/ \E c \in Children : ChildReady(c)
    \/ \E c \in Children, code \in OwnExitCodes \cup {-SIGTERM} : ChildExit(c, code)
    \/ \E d \in {0, REQUEST_TIMEOUT} : WaitForYoloHealth(d)
    \/ StartEventClient
    \/ RegisterMdns
    \/ RuntimeStop
    \/ StopEventClient
    \/ CloseZeroconf
    \/ TerminateProcess
    \/ WaitReturn
    \/ GracePasses
    \/ ForceKill

SupSpec == SupInit /\ [][SupNext]_vars

(* the service registry: one handle, and discover_first *)
RegInit ==
    /\ SeqStart(DefaultWatch, TRUE)
    /\ HubStart
    /\ ClientStart(DefaultBackoff)
    /\ SupStart
    /\ RegStart
    /\ LineStart(<<>>)
    /\ StatusStart

RegNext ==
    \/ \E ok \in BOOLEAN : Register(ok)
    \/ \E ok \in BOOLEAN : Unregister(ok)
    \/ \E ok \in BOOLEAN : Close(ok)
    \/ \E n \in 0..MaxSightings : \E obs \in [1..n -> Sightings] : DiscoverFirst(obs)

RegSpec == RegInit /\ [][RegNext]_vars

(* one connection of the stream client, over every content of the stream *)
LineInit ==
    /\ SeqStart(DefaultWatch, TRUE)
    /\ HubStart
    /\ ClientStart(DefaultBackoff)
    /\ SupStart
    /\ RegStart
    /\ \E ls \in SeqsUpTo(MaxLines) : LineStart(ls)
    /\ StatusStart

LineNext ==
    \/ ReadLine
    \/ ConnectionEnds
    \/ StopSet

LineSpec == LineInit /\ [][LineNext]_vars

(* ---------------------------------------------------------------------- *)
(* Safety sequencer: properties                                           *)
(* ---------------------------------------------------------------------- *)
InSequence(t) == pc[t] \in {"sleep_rev", "sleep_fwd"}
Stops == {i \in 1..Len(wire) : wire[i].line = StopLine}
Reverses == {i \in 1..Len(wire) : wire[i].line = ReverseLine}
Forwards == {i \in 1..Len(wire) : wire[i].line = ForwardLine}
NumSequences == Cardinality(Stops)
OnlyStream == arrived[2] = -1
Settled(t) == pc[t] = "idle" /\ queue[t] = <<>>

(* C1: at most one safety sequence executes at any instant: at most one context is
   between its STOP and its last command, it is the holder of the lock, and on the
   wire no command of another sequence falls between a sequence's STOP and its last
   command. *)
C1_OneSequenceAtATime ==
    /\ Cardinality({t \in Threads : InSequence(t)}) <= 1
    /\ \A t \in Threads : InSequence(t) =>
          /\ serial_lock = t
          /\ wire # <<>> /\ wire[Len(wire)].by = t
    /\ \A i \in 2..Len(wire) : wire[i].line # StopLine =>
          /\ wire[i - 1].by = wire[i].by
          /\ wire[i - 1].ev = wire[i].ev
          /\ wire[i - 1].line # ForwardLine

(* C1 witness: one context is inside a sequence while another one, whose event passes
   the debounce test, waits for the lock. *)
C1_Witness ==
    \E t, u \in Threads :
        /\ t # u
        /\ InSequence(t)
        /\ pc[u] = "lock"
        /\ now[u] - serial_cooldown >= REVERSE_DURATION

(* C2 as stated: on the stream alone, after the event at t=0 started a sequence, a
   watch-set event arriving before t=D starts none, one arriving at t=D or later
   starts a second one, and the scenario
   person@0, person@0.2, bottle@0.3, person@2.0 with watch set {person} ends with
   exactly two sequences. *)
C2_AsStated ==
    OnlyStream =>
        /\ (verdict.prev = StartTime /\ verdict.at < StartTime + REVERSE_DURATION)
              => ~verdict.ran
        /\ (verdict.prev = StartTime /\ verdict.at >= StartTime + REVERSE_DURATION)
              => verdict.ran
        /\ (scn = Len(Scenario) /\ WATCH_CLASSES = {"person"} /\ Settled(1))
              => NumSequences = 2

(* C2 amended: on the stream alone, a watch-set event starts a sequence exactly when
   no sequence has started yet or it arrives at least STOP_TO_REVERSE_DELAY +
   REVERSE_DURATION after the start of the latest one; the scenario ends with one
   sequence, the one for the event at t=0. *)
C2_CooldownFromReverse ==
    OnlyStream =>
        /\ verdict # NoVerdict =>
              (verdict.ran <=>
                  \/ verdict.prev = -1
                  \/ verdict.at >= verdict.prev + STOP_TO_REVERSE_DELAY + REVERSE_DURATION)
        /\ (scn = Len(Scenario) /\ WATCH_CLASSES = {"person"} /\ Settled(1)) =>
              /\ NumSequences = 1
              /\ wire[1].ev = Payload(Scenario[1])

(* C2 witness: the scenario has been delivered and handled to the end. *)
C2_Witness ==
    /\ scn = Len(Scenario)
    /\ WATCH_CLASSES = {"person"}
    /\ Settled(1)
    /\ verdict = [at |-> Scenario[4].at, by |-> 1, ran |-> FALSE, prev |-> StartTime]

(* C3: the recorded trigger time is the time REVERSE was sent, and every sequence
   starts at least the cooldown duration after every earlier REVERSE. *)
C3_CooldownSpacing ==
    /\ serial_cooldown = (IF Reverses = {} THEN 0 ELSE LastAt(wire, ReverseLine))
    /\ \A i \in Reverses : \A j \in Stops :
          i < j => wire[j].at - wire[i].at >= REVERSE_DURATION

(* C3 witness: a second sequence has started exactly the cooldown duration after the
   REVERSE of the first one. *)
C3_Witness ==
    \E i \in Reverses : \E j \in Stops :
        i < j /\ wire[j].at - wire[i].at = REVERSE_DURATION

(* C4: every sequence sends STOP, then REVERSE with the configured duration, then
   FORWARD exactly when resume-with-forward is enabled, whatever the sends returned:
   on the wire each command follows its predecessor of the same sequence, and a
   context that has left the sequence has sent its last command. *)
C4_CommandOrder ==
    /\ \A i \in 1..Len(wire) : wire[i].line \in {StopLine, ReverseLine, ForwardLine}
    /\ \A i \in Reverses : i > 1 /\ wire[i - 1].line = StopLine /\ wire[i - 1].by = wire[i].by
    /\ \A i \in Forwards :
          /\ RESUME_WITH_FORWARD
          /\ i > 1 /\ wire[i - 1].line = ReverseLine /\ wire[i - 1].by = wire[i].by
    /\ \A i \in 1..(Len(wire) - 1) :
          /\ wire[i].line = StopLine => wire[i + 1].line = ReverseLine
          /\ wire[i].line = ReverseLine =>
                wire[i + 1].line = (IF RESUME_WITH_FORWARD THEN ForwardLine ELSE StopLine)
    /\ wire # <<>> =>
          LET last == wire[Len(wire)] IN
            /\ last.line = StopLine => pc[last.by] = "sleep_rev"
            /\ (last.line = ReverseLine /\ RESUME_WITH_FORWARD) => pc[last.by] = "sleep_fwd"
    /\ \A t \in Threads :
          /\ pc[t] = "sleep_rev" => wire # <<>> /\ wire[Len(wire)].line = StopLine
          /\ pc[t] = "sleep_fwd" => wire # <<>> /\ wire[Len(wire)].line = ReverseLine

(* C4 witness: a sequence whose STOP and REVERSE both failed went on to FORWARD. *)
C4_Witness ==
    \E i \in Stops :
        /\ i + 2 <= Len(wire)
        /\ ~wire[i].ok
        /\ ~wire[i + 1].ok
        /\ wire[i + 2].line = ForwardLine

(* a step in which context t takes up the event at the head of its queue *)
Takes(t) ==
    /\ pc[t] = "idle"
    /\ queue[t] # <<>>
    /\ queue'[t] = Tail(queue[t])

(* a step in which context t leaves the append position *)
Appends(t) == pc[t] = "append" /\ pc'[t] # "append"

(* C7 as stated: every event that carries a label is recorded as last detection and
   goes on to be appended to the log. *)
C7_AsStated ==
    [][\A t \in Threads :
          (Takes(t) /\ Head(queue[t]).label # "") =>
              (last_detection' = Payload(Head(queue[t])) /\ pc'[t] = "append")]_vars

(* C7 amended: every event of type "detection" whose payload carries a non-empty label
   is recorded as last detection and appended to the log, whether or not its label is
   watched and whether or not the cooldown drops its sequence. *)
C7_DetectionsLogged ==
    /\ [][\A t \in Threads :
            (Takes(t) /\ Head(queue[t]).type = "detection" /\ Head(queue[t]).label # "") =>
                /\ last_detection' = Payload(Head(queue[t]))
                /\ pc'[t] = "append"
                /\ cur'[t] = Head(queue[t])]_vars
    /\ [][\A t \in Threads : Appends(t) =>
            (event_log' # <<>> /\ Head(event_log') = Payload(cur[t]))]_vars

(* C7 witness: an unwatched event and an event dropped by the cooldown are in the log. *)
C7_Witness ==
    /\ Len(event_log) = 2
    /\ event_log[1].label \notin WATCH_CLASSES
    /\ event_log[2].label \in WATCH_CLASSES
    /\ verdict.at = event_log[2].ts
    /\ ~verdict.ran

(* C8: an event whose label is not in the watch set causes no actuator command, leaves
   the cooldown timestamp and the lock alone and starts no sequence. *)
C8_UnwatchedIgnored ==
    /\ [](\A i \in 1..Len(wire) : wire[i].ev.label \in WATCH_CLASSES)
    /\ [](\A t \in Threads : pc[t] \in {"lock", "sleep_rev", "sleep_fwd"} =>
            cur[t].label \in WATCH_CLASSES)
    /\ [][\A t \in Threads : (Appends(t) /\ cur[t].label \notin WATCH_CLASSES) =>
            /\ pc'[t] = "idle"
            /\ UNCHANGED <<wire, serial_cooldown, serial_lock, verdict>>]_vars

(* C8 witness: an unwatched event has been handled to the end. *)
C8_Witness ==
    /\ event_log # <<>>
    /\ event_log[1].label \notin WATCH_CLASSES
    /\ event_log[1].label # ""
    /\ \A t \in Threads : Settled(t)

Min(a, b) == IF a < b THEN a ELSE b

(* C9: the log never holds more than its capacity, every append puts the event first
   and keeps the earlier entries in order, dropping only the oldest of a full log. *)
C9_BoundedNewestFirst ==
    /\ [](Len(event_log) <= MAX_EVENT_LOG_SIZE)
    /\ [][\A t \in Threads : Appends(t) =>
            /\ Head(event_log') = Payload(cur[t])
            /\ Tail(event_log') =
                  SubSeq(event_log, 1, Min(Len(event_log), MAX_EVENT_LOG_SIZE - 1))]_vars
    /\ [][event_log' # event_log => \E t \in Threads : Appends(t)]_vars

(* C9 witness: the four events of the scenario went through a log of capacity two,
   which holds the last two, newest first. *)
C9_Witness ==
    /\ scn = Len(Scenario)
    /\ Settled(1)
    /\ Len(event_log) = MAX_EVENT_LOG_SIZE
    /\ event_log[1] = Payload(Scenario[4])
    /\ event_log[2] = Payload(Scenario[3])

(* ---------------------------------------------------------------------- *)
(* Broadcast hub: properties                                              *)
(* ---------------------------------------------------------------------- *)
RECURSIVE PutsFor(_, _)
PutsFor(jobs, q) ==
    IF jobs = <<>> THEN <<>>
    ELSE IF Head(jobs).q = q THEN <<Head(jobs).payload>> \o PutsFor(Tail(jobs), q)
    ELSE PutsFor(Tail(jobs), q)

(* what the running broadcast still has to hand to q *)
Pending(q) ==
    IF bpc = "deliver" /\ \E i \in 1..Len(bqueues) : bqueues[i] = q
    THEN <<bpayload>> ELSE <<>>

(* everything handed or about to be handed to q, in order *)
Got(q) == received[q] \o qbuf[q] \o PutsFor(loopq, q) \o Pending(q)

(* the payloads published since q registered *)
Since(q) == SubSeq(published, regAt[q] + 1, Len(published))

IsPrefix(a, b) == Len(a) <= Len(b) /\ a = SubSeq(b, 1, Len(a))

(* C5: a registered subscriber gets exactly the payloads published since it
   registered, in publish order, none lost or duplicated and none from before its
   registration; a subscriber that has left got an initial part of them. *)
C5_DeliveryInOrder ==
    \A q \in QueueIds :
        /\ qstate[q] = "unused" => Got(q) = <<>>
        /\ qstate[q] = "registered" => Got(q) = Since(q)
        /\ qstate[q] = "closed" => IsPrefix(Got(q), Since(q))
        /\ IsPrefix(received[q], Since(q))

(* C5 witness: the first subscriber has received all three payloads and the second,
   registered after the second publish, only the third. *)
C5_Witness ==
    /\ received[1] = <<1, 2, 3>>
    /\ received[2] = <<3>>
    /\ regAt[2] = 2

(* C6: while broadcast hands the payload to the channels it does not hold the hub
   lock, it can always take its next step whatever the channels hold, the event loop
   can always run the next put, and subscribing and unsubscribing are not blocked. *)
C6_PublishNeverBlocks ==
    /\ bpc = "deliver" =>
          /\ hub_lock # "broadcast"
          /\ ENABLED (BroadcastPut \/ BroadcastReturn)
          /\ \A q \in QueueIds : qstate[q] = "registered" => ENABLED Unsubscribe(q)
          /\ \A q \in QueueIds :
                (qstate[q] = "unused" /\ \A r \in QueueIds : r < q => qstate[r] # "unused")
                    => ENABLED Subscribe(q)
    /\ loopq # <<>> => ENABLED LoopRun

(* C6 witness: broadcast is handing over a payload while one subscriber has consumed
   nothing of the two payloads in its channel and another has consumed all of its own. *)
C6_Witness ==
    /\ bpc = "deliver"
    /\ bqueues # <<>>
    /\ \E q, r \in QueueIds :
          /\ q # r
          /\ qstate[q] = "registered" /\ received[q] = <<>> /\ Len(qbuf[q]) >= 2
          /\ qstate[r] = "registered" /\ Len(received[r]) >= 2 /\ qbuf[r] = <<>>

(* ---------------------------------------------------------------------- *)
(* Stream client: properties                                              *)
(* ---------------------------------------------------------------------- *)
RECURSIVE Pow2(_)
Pow2(n) == IF n = 0 THEN 1 ELSE 2 * Pow2(n - 1)

(* C10 as stated: as long as no connection has succeeded, the i-th reconnect wait is
   min(2^(i-1) * B, C), for every configured base B. *)
C10_AsStated ==
    connected = 0 =>
        \A i \in 1..Len(waits) :
            waits[i] = Min(Pow2(i - 1) * SSE_BACKOFF_SEC, BACKOFF_CAP)

(* C11 as stated: the first reconnect wait after a connection that succeeded lasts
   the base value, however that connection ended. *)
C11_AsStated ==
    [][(Len(waits') = Len(waits) + 1 /\ sinceOk) =>
          waits'[Len(waits')] = SSE_BACKOFF_SEC]_vars

(* C12 as stated: while the stop signal is clear a started run loop has not ended,
   whatever connection errors occurred and whatever frames were received. *)
C12_AsStated == ~stop_event => cpc \notin {"stopped", "crashed"}

(* C13 as stated: whenever a start() call returns there is a run loop, and it runs
   with its stop signal clear. *)
C13_AsStated == [][starts' = starts + 1 => (Alive' /\ ~stop_event')]_vars

(* C14: stop() can always be entered, and its join returns at the latest when its
   timeout is used up, in whatever state the run loop is: the join never waits longer
   than the timeout and can return as soon as the timeout is used up or the loop has
   ended. *)
C14_StopBounded ==
    /\ (caller = "out" /\ stops < MaxStops) => ENABLED ClientStop
    /\ caller = "joining" =>
          /\ join_waited <= JOIN_TIMEOUT
          /\ (join_waited = JOIN_TIMEOUT \/ ~Alive) => ENABLED JoinReturn

(* C14 witness: the join has used up its timeout while the run loop is still inside
   the callback. *)
C14_Witness ==
    /\ caller = "joining"
    /\ join_waited = JOIN_TIMEOUT
    /\ cpc = "callback"

(* C15 as stated: once the stop signal is set a pending reconnect sleep does not go
   on, no connection is opened and no callback is dispatched. *)
C15_AsStated ==
    /\ [][(stop_event /\ cpc = "sleep" /\ cpc' = "sleep") => sleep_left' = sleep_left]_vars
    /\ [][stop_event => ~(cpc = "connect" /\ cpc' = "streaming")]_vars
    /\ [][stop_event => ~(cpc = "dispatch" /\ cpc' \in {"callback", "crashed"})]_vars

(* C16: a frame whose data does not decode as JSON is dropped: the callback is not
   invoked, the log, the last detection and the cooldown are untouched, the loop is
   back in the streaming state on the same connection, and a well-formed frame read
   on that connection is handed to the callback whatever was dropped before it. *)
C16_MalformedDropped ==
    /\ [][(cpc = "dispatch" /\ cpc' # "dispatch" /\ frame = "garbage") =>
            /\ cpc' = "streaming"
            /\ frames' = Append(frames, "dropped")
            /\ UNCHANGED <<connected, backoff, waits>>
            /\ UNCHANGED <<event_log, last_detection, serial_cooldown, queue>>]_vars
    /\ [][(cpc = "dispatch" /\ cpc' # "dispatch" /\ frame = "object") =>
            /\ cpc' = "callback"
            /\ frames' = Append(frames, "called")]_vars
    /\ [](cpc = "streaming" /\ Len(frames) < MaxFrames =>
            ENABLED (\E k \in FrameKinds : FrameRead(k)))

(* C16 witness: on one connection a malformed frame was dropped and the frame after
   it is in the callback. *)
C16_Witness ==
    /\ frames = <<"dropped", "called">>
    /\ cpc = "callback"

(* ---------------------------------------------------------------------- *)
(* Process supervisor: properties                                         *)
(* ---------------------------------------------------------------------- *)
(* a step in which _launch_yolo_server runs *)
Launches == rpc = "launch" /\ rpc' # "launch"

(* a step in which _wait_for_yolo_health runs a turn of its loop *)
HealthTurn == rpc = "health" /\ (outcome' # outcome \/ health_elapsed' # health_elapsed)

(* C17: a launch while the tracked child runs starts nothing and keeps the handle; a
   launch with no running child starts exactly one child and records it; at most one
   child runs at any time, and it is the tracked one. *)
C17_LaunchIdempotent ==
    /\ [](Cardinality({c \in Children : pstate[c] = "running"}) <= 1)
    /\ [](\A c \in Children : pstate[c] = "running" => yolo_process = c)
    /\ [][Launches =>
            IF yolo_process # 0 /\ pstate[yolo_process] = "running"
            THEN UNCHANGED <<yolo_process, pstate>>
            ELSE \E c \in Children :
                    /\ pstate[c] = "unborn"
                    /\ pstate' = [pstate EXCEPT ![c] = "running"]
                    /\ yolo_process' = c]_vars

(* C17 witness: a second start() has launched while the first child was running, and
   no second child was started. *)
C17_Witness ==
    /\ startups = 2
    /\ rpc = "health"
    /\ yolo_process = 1
    /\ pstate[1] = "running"
    /\ pstate[2] = "unborn"

(* C18: the health wait ends with success only on a successful poll of a child not
   seen exited, with the early-exit error carrying the child's exit code only when
   the child has exited, with the timeout error naming the URL only once the timeout
   has passed; a child seen exited before the timeout always ends it; and the wait
   never goes on past the timeout by more than one turn. *)
C18_HealthOutcomes ==
    /\ [][(HealthTurn /\ outcome' # outcome) =>
            \/ /\ outcome'.kind = "ok"
               /\ yolo_process # 0
               /\ pstate[yolo_process] = "running"
               /\ pready[yolo_process]
               /\ health_elapsed < HEALTH_TIMEOUT
            \/ /\ outcome'.kind = "exited"
               /\ yolo_process # 0
               /\ pstate[yolo_process] = "exited"
               /\ outcome'.code = returncode[yolo_process]
            \/ /\ outcome'.kind = "timeout"
               /\ health_elapsed >= HEALTH_TIMEOUT
               /\ outcome'.url = HealthUrl]_vars
    /\ [][(HealthTurn /\ health_elapsed < HEALTH_TIMEOUT
              /\ yolo_process # 0 /\ pstate[yolo_process] = "exited") =>
            outcome'.kind = "exited"]_vars
    /\ [][(HealthTurn /\ outcome' # outcome) => rpc' # "health"]_vars
    /\ [](rpc = "health" =>
            /\ outcome = NoOutcome
            /\ health_elapsed < HEALTH_TIMEOUT + REQUEST_TIMEOUT + POLL_INTERVAL
            /\ ENABLED (\E d \in {0, REQUEST_TIMEOUT} : WaitForYoloHealth(d)))

(* C18 witness: a health wait has ended with the early-exit error of a child that
   exited with code 1. *)
C18_Witness ==
    /\ outcome = [kind |-> "exited", code |-> 1, url |-> ""]
    /\ rpc = "idle"
    /\ yolo_process # 0
    /\ returncode[yolo_process] = 1

(* C19: the event client is started and the service record registered only after the
   health wait of the same start() ended with success; when it ends with an error,
   start() is left at once and neither happens. *)
C19_HealthGate ==
    /\ [](rpc \in {"client", "mdns"} => outcome.kind = "ok")
    /\ [][((events_client' /\ ~events_client) \/ (zeroconf_handle' /\ ~zeroconf_handle))
            => (outcome.kind = "ok" /\ rpc \in {"client", "mdns"})]_vars
    /\ [][(HealthTurn /\ outcome'.kind \in {"exited", "timeout"}) =>
            /\ rpc' = "idle"
            /\ UNCHANGED <<events_client, zeroconf_handle>>]_vars

(* C19 witness: a start() came through the health gate and has started the event
   client and registered the service record. *)
C19_Witness ==
    /\ startups = 1
    /\ rpc = "idle"
    /\ outcome.kind = "ok"
    /\ events_client
    /\ zeroconf_handle

(* C20: a process gets no signal once it has exited; the first signal is the graceful
   one; the forced kill follows only when the grace period has passed with the
   process still running, and then it does follow; terminate returns without a kill
   exactly when the process has exited; afterwards the process has exited, so that
   another terminate is the no-op. *)
C20_GracefulThenForced ==
    /\ [](\A c \in Children :
            signals[c] \in {<<>>, <<SIGTERM>>, <<SIGTERM, SIGKILL>>})
    /\ [][\A c \in Children : signals'[c] # signals[c] => pstate[c] = "running"]_vars
    /\ [][\A c \in Children : Len(signals'[c]) > 1 /\ signals'[c] # signals[c] =>
            (rpc = "term_wait" /\ grace_left = 0 /\ yolo_process = c)]_vars
    /\ [][(rpc \in {"terminate", "term_wait"} /\ rpc' = "idle") =>
            (signals' = signals <=> pstate[yolo_process] = "exited")]_vars
    /\ [](rpc = "term_wait" /\ grace_left = 0 /\ pstate[yolo_process] = "running"
            => ENABLED ForceKill)
    /\ [](\A c \in Children :
            (signals[c] # <<>> /\ ~(rpc = "term_wait" /\ yolo_process = c))
                => pstate[c] = "exited")

(* C20 witness: a child that kept running through the grace period was sent the
   graceful signal and then the forced kill. *)
C20_Witness ==
    /\ signals[1] = <<SIGTERM, SIGKILL>>
    /\ returncode[1] = -SIGKILL
    /\ rpc = "idle"

(* the orders in which a stop() call may have worked so far *)
TeardownOrders ==
    {<<>>, <<"client">>, <<"mdns">>, <<"process">>, <<"client", "mdns">>,
     <<"client", "process">>, <<"mdns", "process">>, <<"client", "mdns", "process">>}

(* C21: stop() stops the event client, then closes the service record, then
   terminates the subprocess, each only when it is held and never more often than it
   was started; when stop() returns nothing is held, so that a second stop() does
   nothing; and every step of stop() can always be taken. *)
C21_OrderlyTeardown ==
    /\ [](teardown \in TeardownOrders)
    /\ [](tally.client_stops <= tally.client_starts /\ tally.closes <= tally.registers)
    /\ [](\A c \in Children : Len(signals[c]) <= 2)
    /\ [][(rpc = "stop_client" /\ rpc' # rpc) =>
            IF events_client
            THEN teardown' = Append(teardown, "client") /\ ~events_client'
            ELSE UNCHANGED <<teardown, tally>>]_vars
    /\ [][(rpc = "stop_mdns" /\ rpc' # rpc) =>
            IF zeroconf_handle
            THEN teardown' = Append(teardown, "mdns") /\ ~zeroconf_handle'
            ELSE UNCHANGED <<teardown, tally>>]_vars
    /\ [][(rpc \in {"stop_mdns", "terminate", "term_wait"} /\ rpc' = "idle") =>
            (~events_client' /\ ~zeroconf_handle' /\ yolo_process' = 0)]_vars
    /\ [][(rpc = "idle" /\ rpc' = "stop_client"
              /\ ~events_client /\ ~zeroconf_handle /\ yolo_process = 0) =>
            UNCHANGED <<tally, signals, pstate>>]_vars
    /\ [](rpc = "stop_client" => ENABLED StopEventClient)
    /\ [](rpc = "stop_mdns" => ENABLED CloseZeroconf)
    /\ [](rpc = "terminate" => ENABLED TerminateProcess)

(* C21 witness: after a start(), a first stop() tore down all three and a second
   stop() has returned without doing anything. *)
C21_Witness ==
    /\ startups = 1
    /\ shutdowns = 2
    /\ rpc = "idle"
    /\ teardown = <<>>
    /\ tally = [client_starts |-> 1, client_stops |-> 1, registers |-> 1, closes |-> 1]
    /\ signals[1] # <<>>

(* C22 as stated: unregistering and closing a handle raise nothing, and the handle never
   asks for the withdrawal of a record that is not published, not even after a
   publication that failed.  Refuted: register() sets `_info` before the publication,
   so after a failed publication unregister() and close() withdraw a record that was
   never published *)
C22_AsStated ==
    /\ ztally.unpublished = 0
    /\ ztally.raised = 0
    /\ ztally.withdrawn <= ztally.published

(* the services of obs that discover_first may return: there before the timeout, resolvable *)
InTime(obs) == {i \in 1..Len(obs) : obs[i].at < DISCOVER_TIMEOUT /\ obs[i].resolved}

(* C23 as stated: discover_first returns the first service that appears within the
   timeout, returns none only once the whole timeout has passed, and has released
   its resources when it returns.  Refuted: the module does not load *)
C23_AsStated ==
    dcalls > 0 =>
        /\ found.closed
        /\ IF InTime(sightings) = {}
           THEN found.kind = "none" /\ found.at = DISCOVER_TIMEOUT
           ELSE /\ found.kind = "found"
                /\ \E i \in InTime(sightings) :
                      /\ \A j \in InTime(sightings) : i <= j
                      /\ found.name = sightings[i].name
                      /\ found.at = sightings[i].at

(* the frames of a stream: the runs of lines that a blank line ends; the lines after
   the last blank line are no frame *)
RECURSIVE Frames(_, _)
Frames(ls, acc) ==
    IF ls = <<>> THEN <<>>
    ELSE IF Head(ls) = Blank THEN <<acc>> \o Frames(Tail(ls), <<>>)
    ELSE Frames(Tail(ls), Append(acc, Head(ls)))

(* the values the callback is owed: one for each frame that has data lines whose
   concatenation is JSON, in the order of the frames *)
RECURSIVE Owed(_)
Owed(fs) ==
    IF fs = <<>> THEN <<>>
    ELSE IF \E i \in 1..Len(Head(fs)) : Head(fs)[i].field = "data"
    THEN IF Parse(DataLines(Head(fs))) \in {"object", "nonobject"}
         THEN <<DataLines(Head(fs))>> \o Owed(Tail(fs))
         ELSE Owed(Tail(fs))
    ELSE Owed(Tail(fs))

(* C26 as stated: on a connection that no stop() cuts short, the callback is called
   exactly once for each blank-line-terminated frame whose data lines are JSON, in
   order, frames are not merged, and an unterminated frame is never dispatched.
   Refuted: a frame whose JSON is not an object ends the read loop, and the frames
   after it are never dispatched *)
C26_AsStated ==
    (lpc \in {"ended", "crashed"} /\ ~lstop) => dispatched = Owed(Frames(lines, <<>>))

(* a step in which context t leaves the lock position, one way or the other *)
Decides(t) == pc[t] = "lock" /\ pc'[t] # "lock"

(* every change of a queue is a fresh arrival at its end or the removal of its head *)
QueueFifo(t) ==
    queue'[t] # queue[t] =>
        \/ queue[t] # <<>> /\ queue'[t] = Tail(queue[t])
        \/ /\ Len(queue'[t]) = Len(queue[t]) + 1
           /\ SubSeq(queue'[t], 1, Len(queue[t])) = queue[t]
           /\ queue'[t][Len(queue'[t])].at = clock
           /\ arrived[t] < clock

(* C24: the debounce is a hard drop, not a queue: of the contexts that reach the
   sequencer together only the holder of the lock executes, a context that had to
   wait for the lock is dropped when it obtains it and sends nothing, a dropped
   context is idle again with no event in hand, and no event is put back on a queue. *)
C24_HardDrop ==
    /\ [](\A t \in Threads : pc[t] \in {"sleep_rev", "sleep_fwd"} => serial_lock = t)
    /\ [][\A t \in Threads : (Decides(t) /\ now[t] < clock) =>
            /\ wire' = wire
            /\ pc'[t] = "idle"
            /\ cur'[t] = NoEvent
            /\ serial_lock' = serial_lock]_vars
    /\ [][\A t \in Threads : (Decides(t) /\ wire' = wire) =>
            (pc'[t] = "idle" /\ cur'[t] = NoEvent /\ queue' = queue)]_vars
    /\ [][\A t \in Threads : QueueFifo(t)]_vars

(* C24 witness: the second context's event reached the sequencer while the stream's
   sequence was running, waited for the lock to the end of that sequence, and was
   dropped. *)
C24_Witness ==
    /\ Len(wire) = 3
    /\ wire[1].by = 1 /\ wire[1].at = StartTime
    /\ clock = StartTime + STOP_TO_REVERSE_DELAY + FORWARD_RESUME_DELAY
    /\ verdict = [at |-> StartTime + 2, by |-> 2, ran |-> FALSE, prev |-> StartTime]
    /\ pc[2] = "idle"

(* C25: the callback runs inline on the stream's read loop: while the stream's context
   is inside a sequence or waits for the lock it takes up no event, its arrivals only
   queue up, and with the stream as the only source nothing is logged, recorded or
   decided meanwhile; events are taken up in arrival order once the call has returned,
   and an event whose elapsed time is under the cooldown when it is taken up is dropped. *)
C25_InlineCallback ==
    /\ [][pc[1] # "idle" => IsPrefix(queue[1], queue'[1])]_vars
    /\ [][(pc[1] \in {"sleep_rev", "sleep_fwd"} /\ arrived'[2] = -1) =>
            UNCHANGED <<event_log, last_detection, verdict>>]_vars
    /\ [][(Takes(1) /\ Accepted(Head(queue[1]))) => cur'[1] = Head(queue[1])]_vars
    /\ [][QueueFifo(1)]_vars
    /\ [](pc[1] = "idle" /\ queue[1] # <<>> => ENABLED HandleEvent(1))
    /\ [][(Decides(1) /\ now[1] - serial_cooldown < REVERSE_DURATION) =>
            (wire' = wire /\ pc'[1] = "idle")]_vars

(* C25 witness: on the stream alone, an event that arrived during the sequence was
   taken up when the sequence had sent its last command, and was dropped. *)
C25_Witness ==
    /\ OnlyStream
    /\ Len(wire) = 3
    /\ wire[1].by = 1 /\ wire[1].at = StartTime
    /\ clock = wire[3].at
    /\ verdict = [at |-> StartTime + 2, by |-> 1, ran |-> FALSE, prev |-> StartTime]
    /\ Len(event_log) = 2

(* C27 as stated: once a queue has been unregistered nothing is put on it any more,
   not even by a broadcast that took its snapshot before.  Refuted: the put that
   broadcast schedules from its snapshot runs after the queue was removed *)
C27_AsStated ==
    [][\A q \in QueueIds : qstate[q] = "closed" => qbuf'[q] = qbuf[q]]_vars

(* C28 as stated: while a sequence holds the lock, from its STOP to its last command,
   no command other than its own goes to the serial line.  Refuted: the /cmd
   endpoints send without the lock *)
C28_AsStated ==
    [][(wire' # wire /\ wire'[Len(wire')].by = 0) => serial_lock = 0]_vars

(* C29 as stated: once stop() has returned, and until a start() spawns a new one, the
   run loop has ended, so its callback sends nothing any more.  Refuted: the join
   gives up after JOIN_TIMEOUT while the loop sleeps, reads or runs its callback *)
C29_AsStated ==
    (stops > 0 /\ caller = "out" /\ stop_event) => ~Alive

(* C30: every sequence that reaches its REVERSE step starts the cooldown window,
   whatever its sends returned: the trigger time is set when REVERSE is sent, and
   while every transmission so far has failed, an event within the cooldown duration
   of the latest REVERSE is dropped with no STOP sent. *)
C30_CooldownAfterFailure ==
    /\ [][\A t \in Threads : (pc[t] = "sleep_rev" /\ pc'[t] # "sleep_rev") =>
            (serial_cooldown' = clock /\ wire'[Len(wire')].line = ReverseLine)]_vars
    /\ [][\A t \in Threads :
            (/\ Decides(t)
             /\ Reverses # {}
             /\ \A i \in 1..Len(wire) : ~wire[i].ok
             /\ now[t] - LastAt(wire, ReverseLine) < REVERSE_DURATION) =>
                (wire' = wire /\ pc'[t] = "idle")]_vars

(* C30 witness: after a sequence whose STOP and REVERSE both failed, an event that
   arrived within the cooldown duration of the REVERSE was dropped. *)
C30_Witness ==
    /\ NumSequences = 1
    /\ Len(wire) = 2
    /\ \A i \in 1..Len(wire) : ~wire[i].ok
    /\ ~verdict.ran
    /\ verdict.prev = wire[1].at
    /\ verdict.at > wire[2].at
    /\ verdict.at - wire[2].at < REVERSE_DURATION

(* last detection and log agree: absent with an empty log, else the log's first entry *)
Agree(d, log) == d = (IF log = <<>> THEN NoDetection ELSE Head(log))

(* C31 as stated: in every state a concurrent request can observe while the stream's
   thread handles events, and in every /status response, last_detection is the first
   entry of the log when the log is non-empty and is absent exactly when it is empty.
   Refuted: the handler assigns last_detection and appends to the log in two
   statements, and the state between them is observable *)
C31_AsStated ==
    /\ Agree(last_detection, event_log)
    /\ spc = "done" => Agree(response.last_detection, response.event_log)

====
